---- MODULE Spec2Model ----
(***************************************************************************)
(* ya-webadb: the logical socket of the ADB packet dispatcher               *)
(* (libraries/adb/src/socket/socket.ts) together with the parts of the      *)
(* dispatcher and of the stream helpers it is wired to.                     *)
(*                                                                          *)
(* A socket "sends" a packet when it passes it to dispatcher.sendPacket     *)
(* (sent); the dispatcher keeps the packets in one FIFO mailbox (outbox)    *)
(* and delivers them to the transport one at a time, resolving the          *)
(* sendPacket promise of the sender on delivery.  The packets of a socket   *)
(* that reached the transport (Wire) are a prefix of those it sent.         *)
(*                                                                          *)
(* Written bytes are labelled by their position in the socket's outbound    *)
(* byte stream (the k-th byte ever written to a socket is the number k), so *)
(* loss, duplication and reordering of bytes are all visible.  Inbound     *)
(* payloads are labelled the same way: the k-th WRTE received for a socket *)
(* carries the payload << k >>.                                             *)
(*                                                                          *)
(* Spec starts with every socket already opened; OpenSpec starts with an    *)
(* empty dispatcher and adds open() and inbound OPEN; UsbSpec is the        *)
(* inbound half of the WebUSB transport adapter, AdSpec its outbound half,  *)
(* close and disconnect listener; BeSpec is the creation of a WebUSB        *)
(* backend and its connect(); EpSpec is findUsbEndpoints; PmSpec is         *)
(* PackageManager.pushAndInstallStream.                                     *)
(***************************************************************************)
EXTENDS Integers, Sequences, FiniteSets, TLC

\* ---------------------------------------------------------------- bounds
NumSockets == 2        \* sockets of the dispatcher
MaxPayloadSize == 2    \* negotiated dispatcher.options.maxPayloadSize
MaxWriteLen == 5       \* longest byte string of one write call
MaxEvents == 4         \* calls of the consumers plus packets of the peer
MaxQueue == 1          \* payloads the readable half buffers (highWaterMark)
MaxUsbPackets == 3     \* packets the device sends over the bulk-in endpoint
MaxUsbPayload == 2     \* longest payload of such a packet
MaxUsbWrites == 3     \* write calls on the adapter's writable
MaxUsbEvents == 3     \* "disconnect" events
MaxEndpoints == 4     \* endpoints of an alternate interface
MaxApkChunks == 3     \* chunks of an APK stream

Sockets == 1 .. NumSockets

\* remote id the peer chose for the socket with local id s (nonzero, and
\* different from every local id of the model)
RemoteId(s) == s + NumSockets

\* the ids a peer may choose for its end of a socket
RemoteIds == { RemoteId(s) : s \in Sockets }

\* slots of the packet log: one per local id, and 0 for the packets sent for
\* no socket of this side
Slots == 0 .. NumSockets

VARIABLES
    closed,          \* AdbSocketController._closed
    writePromise,    \* AdbSocketController._writePromise
    wpc,             \* position of the sink's write callback
    writableClosed,  \* DuplexStreamFactory._writableClosed
    chunks,          \* the chunks of the latest write call, in order
    done,            \* how many of them the sink has written and got acked
    wres,            \* outcome of the latest write call
    readable,        \* state of the readable half
    reader,          \* state of the consumer's read
    inboundQueue,    \* payloads buffered by the readable half
    sockets,         \* the dispatcher's socket table (local ids)
    transport,       \* "up" or "down"
    outbox,          \* the dispatcher's transport-write mailbox
    sent,            \* per socket: packets passed to sendPacket, in order
    delivered,       \* per socket: how many of them reached the transport
    nWritten,        \* per socket: bytes accepted by write calls so far
    okayRecv,        \* per socket: OKAY packets received
    okayAcked,       \* per socket: OKAY packets that resolved a pending write
    clseRecv,        \* per socket: CLSE packets received
    wrteRecv,        \* per socket: WRTE packets received
    events,          \* calls of the consumers and packets of the peer so far
    loop,            \* routing loop: 0 when reading the transport, else the
                     \* socket whose enqueue() it awaits
    accepted,        \* per socket: payloads enqueue() has accepted
    received,        \* per socket: payloads the consumer has read, in order
    cancelled,       \* per socket: the consumer has cancelled the readable half
    closeCall,       \* per socket: the promise of the _factory.close() that close() called
    nextId,          \* the dispatcher's local id counter
    allocated,       \* the local ids handed out so far, in order
    opening,         \* local ids whose open() awaits the peer's answer
    openRes,         \* per local id: outcome of its open()
    remoteId,        \* AdbSocketInfo.remoteId (0 while unknown)
    localCreated,    \* AdbSocketInfo.localCreated
    usbDevice,       \* payload lengths of the packets the device sends, in order
    usbTaken,        \* transfers of the device that transferIn has returned
    usbPc,           \* position of the adapter's pull(): "idle" or "header"
    usbHeader,       \* the header the pull in progress has deserialized
    usbReads,        \* lengths passed to device.transferIn, in order
    usbPackets,      \* packets enqueued on the adapter's readable, in order
    usbPulls,        \* completed calls of pull()
    adManager,       \* the usbManager the adapter stream was constructed with
    adListeners,     \* usbManagers on which handleUsbDisconnect is registered
    adClosed,        \* the adapter stream's `closed` flag
    adDisposed,      \* the adapter stream's factory has been disposed
    adClosePc,       \* position of the adapter's close: "none", "closing", "done"
    adOutPc,         \* position of the adapter's write callback: "idle" or "out"
    adOutLog,        \* outcomes of the adapter's write callbacks, in order
    adEvents,        \* "disconnect" events dispatched so far, in order
    beCall,          \* the static method that created the backend, or "none"
    beArg,           \* the usbManager passed to that method
    beManager,       \* AdbWebUsbBackend._usbManager
    bePc,            \* position of connect()
    beOps,           \* device operations connect() has issued, in order
    devOpened,       \* USBDevice.opened
    devConfig,       \* USBDevice.configuration?.configurationValue (0: none)
    devClaimed,      \* interface_.claimed
    devAlt,          \* interface_.alternate.alternateSetting
    reqConfig,       \* configurationValue of the matched alternate (0: no match)
    reqAlt,          \* alternateSetting of the matched alternate
    epList,          \* findUsbEndpoints: the endpoints given, by direction
    epIdx,           \* findUsbEndpoints: endpoints the loop has visited
    epIn,            \* findUsbEndpoints: inEndpoint (0: undefined)
    epOut,           \* findUsbEndpoints: outEndpoint (0: undefined)
    epRes,           \* findUsbEndpoints: "running", "returned" or the error thrown
    pmPc,            \* position of pushAndInstallStream()
    pmStream,        \* chunks of the APK stream
    pmPushed,        \* chunks sync.write has pushed
    pmSync,          \* the sync session: "none", "open" or "disposed"
    pmFile,          \* the temporary APK file exists on the device
    pmSpawned,       \* install processes spawned
    pmOutput,        \* what the install process prints
    pmRes            \* outcome of the call: "pending", "ok" or the error

sockVars == << closed, writePromise, wpc, writableClosed, chunks, done, wres, readable,
               reader, inboundQueue, sockets, transport, outbox, sent, delivered,
               nWritten, okayRecv, okayAcked, clseRecv, wrteRecv, events, loop,
               accepted, received, cancelled, closeCall >>

openVars == << nextId, allocated, opening, openRes, remoteId, localCreated >>

usbVars == << usbDevice, usbTaken, usbPc, usbHeader, usbReads, usbPackets, usbPulls >>

adVars == << adManager, adListeners, adClosed, adDisposed, adClosePc, adOutPc, adOutLog,
             adEvents >>

beVars == << beCall, beArg, beManager, bePc, beOps, devOpened, devConfig, devClaimed, devAlt,
             reqConfig, reqAlt >>

epVars == << epList, epIdx, epIn, epOut, epRes >>

pmVars == << pmPc, pmStream, pmPushed, pmSync, pmFile, pmSpawned, pmOutput, pmRes >>

extVars == << adVars, beVars, epVars, pmVars >>

vars == << sockVars, openVars, usbVars, extVars >>

\* ------------------------------------------------------------ helpers
\* a packet in the mailbox or on the wire: sock is the socket it was sent
\* for, from is the task that awaits its sendPacket
Packet(s, cmd, a0, a1, payload, from) ==
    [sock |-> s, cmd |-> cmd, arg0 |-> a0, arg1 |-> a1, payload |-> payload,
     from |-> from]

\* the bytes k+1 .. k+n of a socket's outbound byte stream
Bytes(k, n) == [i \in 1 .. n |-> k + i]

RECURSIVE Concat(_)
Concat(ss) == IF ss = << >> THEN << >> ELSE Head(ss) \o Concat(Tail(ss))

RECURSIVE SelectCmd(_, _)
SelectCmd(log, cmd) ==
    IF log = << >> THEN << >>
    ELSE (IF Head(log).cmd = cmd THEN << Head(log) >> ELSE << >>)
         \o SelectCmd(Tail(log), cmd)

RECURSIVE Payloads(_)
Payloads(log) ==
    IF log = << >> THEN << >> ELSE << Head(log).payload >> \o Payloads(Tail(log))

\* the packets of socket s that reached the transport, in order
Wire(s) == SubSeq(sent[s], 1, delivered[s])

\* sendPacket: the packet joins the mailbox
SendPacket(p) ==
    /\ outbox' = Append(outbox, p)
    /\ sent' = [sent EXCEPT ![p.sock] = Append(@, p)]

\* ChunkStream: cut a byte string into pieces of at most size bytes
RECURSIVE ChunkStream(_, _)
ChunkStream(b, size) ==
    IF Len(b) = 0 THEN << >>
    ELSE IF Len(b) <= size THEN << b >>
    ELSE << SubSeq(b, 1, size) >> \o ChunkStream(SubSeq(b, size + 1, Len(b)), size)

\* a ChunkStream built with a size one above the negotiated maximum
ChunkSize_PlusOne == MaxPayloadSize + 1

\* new ChunkStream(this.dispatcher.options.maxPayloadSize)
ChunkSize == MaxPayloadSize

\* an ack() that marks the write acked whether or not one is waiting
Ack_Always(p) == "resolved"

\* ack(): this._writePromise?.resolve(); only a pending promise settles
Ack(p) == IF p = "pending" THEN "resolved" ELSE p

\* a dispose callback that forgets to set _closed
DisposeClosed_Keep(c) == c

\* dispose callback: this._closed = true
DisposeClosed(c) == TRUE

\* a dispose callback that leaves the pending write alone
DisposeWritePromise_NoReject(p) == p

\* dispose callback: this._writePromise?.reject(new Error('Socket closed'));
\* only a pending promise settles
DisposeWritePromise(p) == IF p = "pending" THEN "rejected" ELSE p

\* a close callback that lets the factory dispose right after sending CLSE
CloseCallbackResult_True == TRUE

\* close callback: "Don't dispose here ... return false"
CloseCallbackResult == FALSE

\* a write callback that sends its chunk without the first byte
WritePayload_Tail(chunk) == Tail(chunk)

\* the sink's write callback passes its chunk unchanged to sendPacket
WritePayload(chunk) == chunk

\* a write callback that does not await _writePromise
WriteSettled_NoWait(p) == TRUE

\* the sink's write callback resumes from `await this._writePromise.promise`
\* only when the promise has settled
WriteSettled(p) == p \in {"resolved", "rejected"}

\* DuplexStreamFactory: its writables accept a chunk only while the factory
\* has neither begun closing nor been disposed
FactoryWritableOpen(s) == ~writableClosed[s]

\* a writable half that is the bare sink, not wrapped by the factory
WritableAccepts_Unwrapped(s) == TRUE

\* the writable half is this._factory.createWritable(sink)
WritableAccepts(s) == FactoryWritableOpen(s)

\* the socket object of local id s has been constructed: it is in the
\* dispatcher's table or has been disposed
Exists(s) == s \in sockets \/ closed[s]

\* the state of the socket in the words of the specification ("NONE": the id
\* was never handed out, or its open() failed)
State(s) ==
    IF s \in opening THEN "OPENING"
    ELSE IF ~Exists(s) THEN "NONE"
    ELSE IF closed[s] THEN "CLOSED"
    ELSE IF writableClosed[s] THEN "HALF_CLOSED"
    ELSE "ESTABLISHED"

\* a dispatcher that answers the peer's CLSE whenever the socket is not yet
\* disposed
RepliesClse_NotClosed(s) == ~closed[s]

\* "If we receive a CLSE while still ESTABLISHED (peer initiated), we respond
\* with our own CLSE"
RepliesClse(s) == State(s) = "ESTABLISHED"

\* a readable half whose cancel() is not wired to the factory
CancelClosesFactory_Unwired == FALSE

\* the readable half is this._factory.wrapReadable(...): cancelling it closes
\* the factory
CancelClosesFactory == TRUE

\* the writable half is piped into this._factory.createWritable(...): closing
\* or aborting it closes the factory
WritableEndClosesFactory == TRUE

\* a routing loop that acks a WRTE as soon as it has read it
AckAfterEnqueue_Early == FALSE

\* routing rule for WRTE: "enqueue payload, then send OKAY"
AckAfterEnqueue == TRUE

\* enqueue(): await this._readableController.enqueue(packet) returns once the
\* readable half has room for the payload (a read is pending or the buffer is
\* below its high-water mark) or has ended
EnqueueAccepts(s) ==
    \/ readable[s] # "open"
    \/ reader[s] = "pending"
    \/ Len(inboundQueue[s]) < MaxQueue

\* the readable half buffers payloads in arrival order
Enqueued(q, payload) == Append(q, payload)

\* a read that leaves the payload in the buffer
Dequeued_Keep(q) == q

\* a read takes the oldest buffered payload out of the buffer
Dequeued(q) == Tail(q)

\* arg0 of the packets the peer sends for local id s: its id for the socket,
\* or the id it would choose for it
InboundArg0(s) == IF remoteId[s] # 0 THEN remoteId[s] ELSE RemoteId(s)

\* an open() that forgets the id the peer chose
OpenedRemoteId_Zero(r) == 0

\* OKAY(remoteId, localId) for an opening id: "set remoteId"
OpenedRemoteId(r) == r

\* a refused open() handled like a fatal error: every stored socket disposed
OpenRejectDisposes_All == sockets

\* CLSE for an opening id: "remove, fail with ServiceUnavailable"; no stored
\* socket is disposed
OpenRejectDisposes == {}

\* a counter that hands out the same id again
NextLocalId_Same(n) == n

\* "localId = nextId++"
NextLocalId(n) == n + 1

\* the service string of open(), as bytes ("sh")
Service == << 115, 104 >>

\* OPEN payload: serviceString + NUL
OpenPayload(service) == Append(service, 0)

\* what the dispatcher finds when a peer opens a socket: no handler, a handler
\* that rejects, a handler that accepts
Handlers == {"absent", "reject", "accept"}

\* a dispatcher that accepts a reverse open without asking a handler
HandlerAccepts_NoHandler(handler) == handler \in {"absent", "accept"}

\* the reverse open is accepted only by a registered handler that accepts
HandlerAccepts(handler) == handler = "accept"

\* DuplexStreamFactory.dispose() applied to the sockets in D, as functions of
\* the current state
DisposedClosed(D) ==
    [s \in Sockets |-> IF s \in D THEN DisposeClosed(closed[s]) ELSE closed[s]]
DisposedWritePromise(D) ==
    [s \in Sockets |-> IF s \in D THEN DisposeWritePromise(writePromise[s])
                       ELSE writePromise[s]]
DisposedWritableClosed(D) ==
    [s \in Sockets |-> IF s \in D THEN TRUE ELSE writableClosed[s]]
DisposedReadable(D) ==
    [s \in Sockets |-> IF s \in D THEN "ended" ELSE readable[s]]
DisposedReader(D) ==
    [s \in Sockets |-> IF s \in D /\ reader[s] = "pending"
                       THEN "SocketClosed" ELSE reader[s]]

\* ------------------------------------------------------------ initial state
\* the first value of the dispatcher's local id counter
FirstId == 1

\* every socket as its constructor leaves it, nothing sent or received yet
FreshSockets ==
    /\ closed = [s \in Sockets |-> FALSE]
    /\ writePromise = [s \in Sockets |-> "undefined"]
    /\ wpc = [s \in Sockets |-> "idle"]
    /\ writableClosed = [s \in Sockets |-> FALSE]
    /\ chunks = [s \in Sockets |-> << >>]
    /\ done = [s \in Sockets |-> 0]
    /\ wres = [s \in Sockets |-> "none"]
    /\ readable = [s \in Sockets |-> "open"]
    /\ reader = [s \in Sockets |-> "idle"]
    /\ inboundQueue = [s \in Sockets |-> << >>]
    /\ transport = "up"
    /\ outbox = << >>
    /\ sent = [s \in Slots |-> << >>]
    /\ delivered = [s \in Slots |-> 0]
    /\ nWritten = [s \in Sockets |-> 0]
    /\ okayRecv = [s \in Sockets |-> 0]
    /\ okayAcked = [s \in Sockets |-> 0]
    /\ clseRecv = [s \in Sockets |-> 0]
    /\ wrteRecv = [s \in Sockets |-> 0]
    /\ events = 0
    /\ loop = 0
    /\ accepted = [s \in Sockets |-> 0]
    /\ received = [s \in Sockets |-> << >>]
    /\ cancelled = [s \in Sockets |-> FALSE]
    /\ closeCall = [s \in Sockets |-> "none"]

\* a dispatcher that has opened no socket yet
NoSockets ==
    /\ sockets = {}
    /\ nextId = FirstId
    /\ allocated = << >>
    /\ opening = {}
    /\ openRes = [s \in Sockets |-> "none"]
    /\ remoteId = [s \in Sockets |-> 0]
    /\ localCreated = [s \in Sockets |-> FALSE]

\* a transport adapter with nothing to read
UsbIdle ==
    /\ usbDevice = << >>
    /\ usbTaken = 0
    /\ usbPc = "idle"
    /\ usbHeader = [payloadLength |-> 0]
    /\ usbReads = << >>
    /\ usbPackets = << >>
    /\ usbPulls = 0

\* no adapter stream has been constructed
AdIdle ==
    /\ adManager = "none"
    /\ adListeners = {}
    /\ adClosed = FALSE
    /\ adDisposed = FALSE
    /\ adClosePc = "none"
    /\ adOutPc = "idle"
    /\ adOutLog = << >>
    /\ adEvents = << >>

\* no backend has been created
BeIdle ==
    /\ beCall = "none"
    /\ beArg = "none"
    /\ beManager = "none"
    /\ bePc = "none"
    /\ beOps = << >>
    /\ devOpened = FALSE
    /\ devConfig = 0
    /\ devClaimed = FALSE
    /\ devAlt = 0
    /\ reqConfig = 0
    /\ reqAlt = 0

\* findUsbEndpoints has not been called
EpIdle ==
    /\ epList = << >>
    /\ epIdx = 0
    /\ epIn = 0
    /\ epOut = 0
    /\ epRes = "none"

\* pushAndInstallStream has not been called
PmIdle ==
    /\ pmPc = "none"
    /\ pmStream = 0
    /\ pmPushed = 0
    /\ pmSync = "none"
    /\ pmFile = FALSE
    /\ pmSpawned = 0
    /\ pmOutput = "none"
    /\ pmRes = "none"

ExtIdle == AdIdle /\ BeIdle /\ EpIdle /\ PmIdle

\* every local id has been opened by this side and answered by the peer
Init ==
    /\ FreshSockets
    /\ sockets = Sockets
    /\ nextId = NumSockets + 1
    /\ allocated = [i \in 1 .. NumSockets |-> i]
    /\ opening = {}
    /\ openRes = [s \in Sockets |-> "resolved"]
    /\ remoteId = [s \in Sockets |-> RemoteId(s)]
    /\ localCreated = [s \in Sockets |-> TRUE]
    /\ UsbIdle
    /\ ExtIdle

\* the dispatcher right after the handshake
OpenInit == FreshSockets /\ NoSockets /\ UsbIdle /\ ExtIdle

\* ------------------------------------------------------------ write path
\* the consumer calls socket.writable.write(bytes) with n bytes; the
\* ChunkStream in front of the sink cuts them into chunks
Write(s, n) ==
    /\ events < MaxEvents
    /\ events' = events + 1
    /\ Exists(s)
    /\ wres[s] # "busy"
    /\ chunks' = [chunks EXCEPT ![s] = ChunkStream(Bytes(nWritten[s], n), ChunkSize)]
    /\ done' = [done EXCEPT ![s] = 0]
    /\ nWritten' = [nWritten EXCEPT ![s] = @ + n]
    /\ wres' = [wres EXCEPT ![s] = "busy"]
    /\ UNCHANGED << closed, writePromise, wpc, writableClosed, readable, reader,
                    inboundQueue, sockets, transport, outbox, sent, delivered, okayRecv,
                    okayAcked, clseRecv, wrteRecv, loop, accepted, received >>
    /\ UNCHANGED << openVars, usbVars, extVars, cancelled, closeCall >>

\* the next chunk reaches the sink: either the factory's writable refuses
\* it, or the write callback creates _writePromise and calls sendPacket
SinkWrite(s) ==
    /\ UNCHANGED events
    /\ wres[s] = "busy"
    /\ wpc[s] = "idle"
    /\ done[s] < Len(chunks[s])
    /\ IF WritableAccepts(s)
       THEN /\ writePromise' = [writePromise EXCEPT ![s] = "pending"]
            /\ wpc' = [wpc EXCEPT ![s] = "sending"]
            /\ SendPacket(Packet(s, "WRTE", s, remoteId[s],
                                  WritePayload(chunks[s][done[s] + 1]), "write"))
            /\ UNCHANGED wres
       ELSE /\ wres' = [wres EXCEPT ![s] = "SocketClosed"]
            /\ UNCHANGED << writePromise, wpc, outbox, sent >>
    /\ UNCHANGED << chunks, done, closed, writableClosed, readable, reader, inboundQueue,
                    sockets, transport, delivered, nWritten, okayRecv, okayAcked,
                    clseRecv, wrteRecv, loop, accepted, received >>
    /\ UNCHANGED << openVars, usbVars, extVars, cancelled, closeCall >>

\* the write callback resumes after `await this._writePromise.promise`
SinkWriteSettle(s) ==
    /\ UNCHANGED events
    /\ wpc[s] = "waiting"
    /\ WriteSettled(writePromise[s])
    /\ wpc' = [wpc EXCEPT ![s] = "idle"]
    /\ IF writePromise[s] = "rejected"
       THEN /\ wres' = [wres EXCEPT ![s] = "SocketClosed"]
            /\ UNCHANGED done
       ELSE /\ done' = [done EXCEPT ![s] = @ + 1]
            /\ wres' = [wres EXCEPT ![s] = IF done[s] + 1 = Len(chunks[s]) THEN "ok" ELSE @]
    /\ UNCHANGED << chunks, closed, writePromise, writableClosed, readable, reader,
                    inboundQueue, sockets, transport, outbox, sent, delivered, nWritten,
                    okayRecv, okayAcked, clseRecv, wrteRecv, loop, accepted, received >>
    /\ UNCHANGED << openVars, usbVars, extVars, cancelled, closeCall >>

\* ------------------------------------------------------------ dispatcher
\* the mailbox hands its oldest packet to the transport and the sender's
\* `await this.dispatcher.sendPacket(...)` resumes
Deliver ==
    /\ UNCHANGED events
    /\ transport = "up"
    /\ outbox # << >>
    /\ LET p == Head(outbox)
           s == p.sock
           D == IF p.from = "close" /\ CloseCallbackResult # FALSE THEN {s} ELSE {}
       IN  /\ outbox' = Tail(outbox)
           /\ delivered' = [delivered EXCEPT ![s] = @ + 1]
           /\ wpc' = IF p.from = "write" THEN [wpc EXCEPT ![s] = "waiting"] ELSE wpc
           /\ closeCall' = IF p.from = "close" /\ closeCall[s] = "pending"
                           THEN [closeCall EXCEPT ![s] = "resolved"] ELSE closeCall
           /\ closed' = DisposedClosed(D)
           /\ writePromise' = DisposedWritePromise(D)
           /\ writableClosed' = DisposedWritableClosed(D)
           /\ readable' = DisposedReadable(D)
           /\ reader' = DisposedReader(D)
    /\ UNCHANGED << chunks, done, wres, inboundQueue, sockets, transport, sent,
                    nWritten, okayRecv, okayAcked, clseRecv, wrteRecv, loop, accepted,
                    received >>
    /\ UNCHANGED << openVars, usbVars, extVars, cancelled >>

\* the transport is gone: the oldest packet of the mailbox is dropped and the
\* sender's sendPacket fails; a write callback that awaited it throws
DeliverFail ==
    /\ UNCHANGED events
    /\ transport = "down"
    /\ outbox # << >>
    /\ LET p == Head(outbox)
           s == p.sock
       IN  /\ outbox' = Tail(outbox)
           /\ IF p.from = "write"
              THEN /\ wpc' = [wpc EXCEPT ![s] = "idle"]
                   /\ wres' = [wres EXCEPT ![s] = "TransportFailed"]
              ELSE UNCHANGED << wpc, wres >>
           /\ closeCall' = IF p.from = "close" /\ closeCall[s] = "pending"
                           THEN [closeCall EXCEPT ![s] = "rejected"] ELSE closeCall
    /\ UNCHANGED << chunks, done, closed, writePromise, writableClosed, readable, reader,
                    inboundQueue, sockets, transport, sent, delivered, nWritten, okayRecv,
                    okayAcked, clseRecv, wrteRecv, loop, accepted, received >>
    /\ UNCHANGED << openVars, usbVars, extVars, cancelled >>

\* DuplexStreamFactory.close() of socket s: once only; the close callback
\* passes CLSE(localId, remoteId) to sendPacket
FactoryClose(s) ==
    IF ~writableClosed[s]
    THEN /\ writableClosed' = [writableClosed EXCEPT ![s] = TRUE]
         /\ SendPacket(Packet(s, "CLSE", s, remoteId[s], << >>, "close"))
    ELSE UNCHANGED << writableClosed, outbox, sent >>

\* the promise of a _factory.close() called from close(): pending while the
\* close callback awaits sendPacket; a factory that has already begun closing
\* returns at once (the promise of the first call is the one kept)
FactoryCloseCalled(s) ==
    IF ~writableClosed[s] THEN "pending"
    ELSE IF closeCall[s] = "none" THEN "resolved" ELSE closeCall[s]

\* async close() { this._factory.close(); }: the promise of the factory's
\* close is not awaited, so the promise close() returns resolves once called
CloseResult(p) == IF p = "none" THEN "none" ELSE "resolved"

\* socket.close() -> this._factory.close()
Close(s) ==
    /\ events < MaxEvents
    /\ events' = events + 1
    /\ Exists(s)
    /\ closeCall' = [closeCall EXCEPT ![s] = FactoryCloseCalled(s)]
    /\ FactoryClose(s)
    /\ UNCHANGED << closed, writePromise, wpc, chunks, done, wres, readable, reader,
                    inboundQueue, sockets, transport, delivered, nWritten, okayRecv,
                    okayAcked, clseRecv, wrteRecv, loop, accepted, received >>
    /\ UNCHANGED << openVars, usbVars, extVars, cancelled >>

\* socket.readable.cancel(): the buffered payloads are dropped, a pending read
\* ends, and the wrapped readable closes the factory
ReadableCancel(s) ==
    /\ events < MaxEvents
    /\ events' = events + 1
    /\ Exists(s)
    /\ readable[s] = "open"
    /\ readable' = [readable EXCEPT ![s] = "ended"]
    /\ cancelled' = [cancelled EXCEPT ![s] = TRUE]
    /\ inboundQueue' = [inboundQueue EXCEPT ![s] = << >>]
    /\ reader' = [reader EXCEPT ![s] = "idle"]
    /\ IF CancelClosesFactory
       THEN FactoryClose(s)
       ELSE UNCHANGED << writableClosed, outbox, sent >>
    /\ UNCHANGED << closed, writePromise, wpc, chunks, done, wres, sockets, transport,
                    delivered, nWritten, okayRecv, okayAcked, clseRecv, wrteRecv, loop,
                    accepted, received >>
    /\ UNCHANGED << openVars, usbVars, extVars, closeCall >>

\* socket.writable.close() or socket.writable.abort(), called while no write
\* call is in progress: the factory's writable closes the factory
WritableEnd(s) ==
    /\ events < MaxEvents
    /\ events' = events + 1
    /\ Exists(s)
    /\ wres[s] # "busy"
    /\ IF WritableEndClosesFactory
       THEN FactoryClose(s)
       ELSE UNCHANGED << writableClosed, outbox, sent >>
    /\ UNCHANGED << closed, writePromise, wpc, chunks, done, wres, readable, reader,
                    inboundQueue, sockets, transport, delivered, nWritten, okayRecv,
                    okayAcked, clseRecv, wrteRecv, loop, accepted, received >>
    /\ UNCHANGED << openVars, usbVars, extVars, cancelled, closeCall >>

\* routing loop: OKAY(r, localId) arrives.  An opening id becomes a stored
\* socket with remoteId r; a stored socket is acked; anything else is ignored
RecvOkay(s, r) ==
    /\ events < MaxEvents
    /\ events' = events + 1
    /\ transport = "up"
    /\ loop = 0
    /\ okayRecv' = [okayRecv EXCEPT ![s] = @ + 1]
    /\ IF s \in opening
       THEN /\ opening' = opening \ {s}
            /\ sockets' = sockets \cup {s}
            /\ remoteId' = [remoteId EXCEPT ![s] = OpenedRemoteId(r)]
            /\ openRes' = [openRes EXCEPT ![s] = "resolved"]
            /\ UNCHANGED << writePromise, okayAcked >>
       ELSE /\ IF s \in sockets
               THEN /\ writePromise' = [writePromise EXCEPT ![s] = Ack(@)]
                    /\ okayAcked' = [okayAcked EXCEPT
                                        ![s] = IF writePromise[s] = "pending"
                                               THEN @ + 1 ELSE @]
               ELSE UNCHANGED << writePromise, okayAcked >>
            /\ UNCHANGED << opening, sockets, remoteId, openRes >>
    /\ UNCHANGED << closed, wpc, writableClosed, chunks, done, wres, readable, reader,
                    inboundQueue, transport, outbox, sent, delivered, nWritten,
                    clseRecv, wrteRecv, loop, accepted, received >>
    /\ UNCHANGED << nextId, allocated, localCreated, usbVars, extVars, cancelled, closeCall >>

\* routing loop: CLSE(_, localId) arrives.  An opening id (the peer answers
\* a refused OPEN with CLSE(0, localId)) fails its open(); a stored socket is
\* closed; anything else is dropped
RecvClse(s) ==
    /\ events < MaxEvents
    /\ events' = events + 1
    /\ transport = "up"
    /\ loop = 0
    /\ clseRecv' = [clseRecv EXCEPT ![s] = @ + 1]
    /\ IF s \in opening
       THEN /\ opening' = opening \ {s}
            /\ openRes' = [openRes EXCEPT ![s] = "ServiceUnavailable"]
            /\ closed' = DisposedClosed(OpenRejectDisposes)
            /\ writePromise' = DisposedWritePromise(OpenRejectDisposes)
            /\ writableClosed' = DisposedWritableClosed(OpenRejectDisposes)
            /\ readable' = DisposedReadable(OpenRejectDisposes)
            /\ reader' = DisposedReader(OpenRejectDisposes)
            /\ sockets' = sockets \ OpenRejectDisposes
            /\ UNCHANGED << outbox, sent >>
       ELSE /\ IF s \in sockets
               THEN /\ IF RepliesClse(s)
                       THEN SendPacket(Packet(s, "CLSE", s, remoteId[s], << >>,
                                               "router"))
                       ELSE UNCHANGED << outbox, sent >>
                    /\ closed' = DisposedClosed({s})
                    /\ writePromise' = DisposedWritePromise({s})
                    /\ writableClosed' = DisposedWritableClosed({s})
                    /\ readable' = DisposedReadable({s})
                    /\ reader' = DisposedReader({s})
                    /\ sockets' = sockets \ {s}
               ELSE UNCHANGED << outbox, sent, closed, writePromise, writableClosed,
                                 readable, reader, sockets >>
            /\ UNCHANGED << opening, openRes >>
    /\ UNCHANGED << wpc, chunks, done, wres, inboundQueue, transport, delivered, nWritten,
                    okayRecv, okayAcked, wrteRecv, loop, accepted, received >>
    /\ UNCHANGED << nextId, allocated, remoteId, localCreated, usbVars, extVars,
                    cancelled, closeCall >>

\* routing loop: WRTE(remoteId, localId, payload) arrives.  For a stored
\* socket the loop calls socket.enqueue(payload) and awaits it; for any other
\* id it tells the peer that the id is dead
RecvWrte(s) ==
    /\ events < MaxEvents
    /\ events' = events + 1
    /\ transport = "up"
    /\ loop = 0
    /\ wrteRecv' = [wrteRecv EXCEPT ![s] = @ + 1]
    /\ IF s \in sockets
       THEN /\ loop' = s
            /\ IF AckAfterEnqueue
               THEN UNCHANGED << outbox, sent >>
               ELSE SendPacket(Packet(s, "OKAY", s, remoteId[s], << >>, "router"))
       ELSE /\ SendPacket(Packet(s, "CLSE", 0, InboundArg0(s), << >>, "router"))
            /\ UNCHANGED loop
    /\ UNCHANGED << closed, writePromise, wpc, writableClosed, chunks, done, wres,
                    readable, reader, inboundQueue, sockets, transport, delivered,
                    nWritten, okayRecv, okayAcked, clseRecv, accepted, received >>
    /\ UNCHANGED << openVars, usbVars, extVars, cancelled, closeCall >>

\* enqueue() returns: the readable half has accepted the payload (it went to
\* the pending read or into the buffer; an ended readable takes and drops
\* it), and the loop sends OKAY(localId, remoteId)
Enqueue(s) ==
    /\ UNCHANGED events
    /\ loop = s
    /\ EnqueueAccepts(s)
    /\ loop' = 0
    /\ accepted' = [accepted EXCEPT ![s] = @ + 1]
    /\ IF readable[s] # "open"
       THEN UNCHANGED << reader, received, inboundQueue >>
       ELSE IF reader[s] = "pending"
       THEN /\ reader' = [reader EXCEPT ![s] = "idle"]
            /\ received' = [received EXCEPT ![s] = Append(@, << wrteRecv[s] >>)]
            /\ UNCHANGED inboundQueue
       ELSE /\ inboundQueue' = [inboundQueue EXCEPT
                                   ![s] = Enqueued(@, << wrteRecv[s] >>)]
            /\ UNCHANGED << reader, received >>
    /\ IF AckAfterEnqueue
       THEN SendPacket(Packet(s, "OKAY", s, remoteId[s], << >>, "router"))
       ELSE UNCHANGED << outbox, sent >>
    /\ UNCHANGED << closed, writePromise, wpc, writableClosed, chunks, done, wres,
                    readable, sockets, transport, delivered, nWritten, okayRecv,
                    okayAcked, clseRecv, wrteRecv >>
    /\ UNCHANGED << openVars, usbVars, extVars, cancelled, closeCall >>

\* the consumer reads from socket.readable
Read(s) ==
    /\ events < MaxEvents
    /\ events' = events + 1
    /\ Exists(s)
    /\ reader[s] = "idle"
    /\ ~cancelled[s]
    /\ IF inboundQueue[s] # << >>
       THEN /\ inboundQueue' = [inboundQueue EXCEPT ![s] = Dequeued(@)]
            /\ received' = [received EXCEPT ![s] = Append(@, Head(inboundQueue[s]))]
            /\ UNCHANGED reader
       ELSE /\ reader' = [reader EXCEPT
                             ![s] = IF readable[s] = "ended" THEN "SocketClosed"
                                    ELSE "pending"]
            /\ UNCHANGED << inboundQueue, received >>
    /\ UNCHANGED << closed, writePromise, wpc, writableClosed, chunks, done, wres,
                    readable, sockets, transport, outbox, sent, delivered, nWritten,
                    okayRecv, okayAcked, clseRecv, wrteRecv, loop, accepted >>
    /\ UNCHANGED << openVars, usbVars, extVars, cancelled, closeCall >>

\* the transport fails (EOF or fatal error): the routing loop exits and the
\* dispatcher disposes every socket of its table; a pending open() fails
TransportFail ==
    /\ events < MaxEvents
    /\ events' = events + 1
    /\ transport = "up"
    /\ transport' = "down"
    /\ loop' = 0
    /\ closed' = DisposedClosed(sockets)
    /\ writePromise' = DisposedWritePromise(sockets)
    /\ writableClosed' = DisposedWritableClosed(sockets)
    /\ readable' = DisposedReadable(sockets)
    /\ reader' = DisposedReader(sockets)
    /\ sockets' = {}
    /\ opening' = {}
    /\ openRes' = [s \in Sockets |-> IF s \in opening THEN "TransportFailed"
                                     ELSE openRes[s]]
    /\ UNCHANGED << wpc, chunks, done, wres, inboundQueue, outbox, sent, delivered, nWritten,
                    okayRecv, okayAcked, clseRecv, wrteRecv, accepted, received >>
    /\ UNCHANGED << nextId, allocated, remoteId, localCreated, usbVars, extVars,
                    cancelled, closeCall >>

\* ------------------------------------------------------------ opening
\* dispatcher.open(service): the next local id is allocated, put in the table
\* as OPENING, and OPEN(localId, 0, service + NUL) is sent
Open ==
    /\ UNCHANGED events
    /\ transport = "up"
    /\ nextId <= NumSockets
    /\ LET id == nextId
       IN  /\ nextId' = NextLocalId(nextId)
           /\ allocated' = Append(allocated, id)
           /\ opening' = opening \cup {id}
           /\ openRes' = [openRes EXCEPT ![id] = "pending"]
           /\ localCreated' = [localCreated EXCEPT ![id] = TRUE]
           /\ SendPacket(Packet(id, "OPEN", id, 0, OpenPayload(Service), "open"))
    /\ UNCHANGED << closed, writePromise, wpc, writableClosed, chunks, done, wres,
                    readable, reader, inboundQueue, sockets, transport, delivered,
                    nWritten, okayRecv, okayAcked, clseRecv, wrteRecv, loop, accepted,
                    received >>
    /\ UNCHANGED << remoteId, usbVars, extVars, cancelled, closeCall >>

\* routing loop: OPEN(r, 0, service) arrives.  Without a handler, or when the
\* handler rejects, the answer is CLSE(0, r) and nothing is stored; when the
\* handler accepts, a socket with a fresh local id is stored and the answer
\* is OKAY(localId, r)
RecvOpen(r, handler) ==
    /\ events < MaxEvents
    /\ events' = events + 1
    /\ transport = "up"
    /\ loop = 0
    /\ IF HandlerAccepts(handler)
       THEN /\ nextId <= NumSockets
            /\ LET id == nextId
               IN  /\ nextId' = NextLocalId(nextId)
                   /\ allocated' = Append(allocated, id)
                   /\ sockets' = sockets \cup {id}
                   /\ remoteId' = [remoteId EXCEPT ![id] = r]
                   /\ localCreated' = [localCreated EXCEPT ![id] = FALSE]
                   /\ SendPacket(Packet(id, "OKAY", id, r, << >>, "accept"))
       ELSE /\ SendPacket(Packet(0, "CLSE", 0, r, << >>, "router"))
            /\ UNCHANGED << nextId, allocated, sockets, remoteId, localCreated >>
    /\ UNCHANGED << closed, writePromise, wpc, writableClosed, chunks, done, wres,
                    readable, reader, inboundQueue, transport, delivered, nWritten,
                    okayRecv, okayAcked, clseRecv, wrteRecv, loop, accepted, received >>
    /\ UNCHANGED << opening, openRes, usbVars, extVars, cancelled, closeCall >>

\* ------------------------------------------------------------ WebUSB adapter
\* bytes of a packet header
HeaderLength == 24

\* the bulk transfers the device queues for packets with the given payload
\* lengths: a header, then the payload if there is one
RECURSIVE DeviceTransfers(_, _)
DeviceTransfers(lens, k) ==
    IF lens = << >> THEN << >>
    ELSE << [kind |-> "header", bytes |-> HeaderLength, payloadLength |-> Head(lens),
             packet |-> k] >>
         \o (IF Head(lens) # 0
             THEN << [kind |-> "payload", bytes |-> Head(lens), payloadLength |-> 0,
                      packet |-> k] >>
             ELSE << >>)
         \o DeviceTransfers(Tail(lens), k + 1)

Transfers == DeviceTransfers(usbDevice, 1)

\* EMPTY_UINT8_ARRAY
EmptyPayload == [bytes |-> 0, packet |-> 0]

\* a pull that reads a payload after every header
NeedsPayloadRead_Always(payloadLength) == TRUE

\* if (packet.payloadLength !== 0)
NeedsPayloadRead(payloadLength) == payloadLength # 0

\* what the device may send
UsbStreams == UNION { [1 .. k -> 0 .. MaxUsbPayload] : k \in 0 .. MaxUsbPackets }

UsbInit ==
    /\ FreshSockets
    /\ NoSockets
    /\ usbDevice \in UsbStreams
    /\ usbTaken = 0
    /\ usbPc = "idle"
    /\ usbHeader = [payloadLength |-> 0]
    /\ usbReads = << >>
    /\ usbPackets = << >>
    /\ usbPulls = 0
    /\ ExtIdle

\* pull(): transferIn(inEndpoint, 24) returns the next transfer and the header
\* is deserialized from it
UsbPullHeader ==
    /\ usbPc = "idle"
    /\ usbTaken < Len(Transfers)
    /\ usbReads' = Append(usbReads, HeaderLength)
    /\ usbHeader' = [payloadLength |-> Transfers[usbTaken + 1].payloadLength]
    /\ usbTaken' = usbTaken + 1
    /\ usbPc' = "header"
    /\ UNCHANGED << usbDevice, usbPackets, usbPulls >>
    /\ UNCHANGED << sockVars, openVars, extVars >>

\* pull(), after the header: the payload is read with a second transferIn if
\* the header announces one, and the packet is enqueued
UsbPullPayload ==
    /\ usbPc = "header"
    /\ IF NeedsPayloadRead(usbHeader.payloadLength)
       THEN /\ usbTaken < Len(Transfers)
            /\ usbReads' = Append(usbReads, usbHeader.payloadLength)
            /\ usbTaken' = usbTaken + 1
            /\ usbPackets' = Append(usbPackets,
                   [payloadLength |-> usbHeader.payloadLength,
                    payload |-> [bytes |-> Transfers[usbTaken + 1].bytes,
                                 packet |-> Transfers[usbTaken + 1].packet]])
       ELSE /\ usbPackets' = Append(usbPackets,
                   [payloadLength |-> usbHeader.payloadLength,
                    payload |-> EmptyPayload])
            /\ UNCHANGED << usbReads, usbTaken >>
    /\ usbPc' = "idle"
    /\ usbPulls' = usbPulls + 1
    /\ UNCHANGED << usbDevice, usbHeader >>
    /\ UNCHANGED << sockVars, openVars, extVars >>

\* ------------------------------------------------------------ USB adapter: close, errors, disconnect
\* the usbManagers of the program: the global window.navigator.usb and one
\* passed by the caller
Managers == {"navigator.usb", "custom"}

\* USB devices that can send a "disconnect" event
Devices == {1, 2}

\* the device the adapter stream was constructed for
OwnDevice == 1

\* a handler that disposes on the disconnect of any device
HandlesDisconnect_Any(d) == TRUE

\* handleUsbDisconnect: if (e.device === device)
HandlesDisconnect(d) == d = OwnDevice

\* a write callback that rethrows whatever the state of the adapter
SwallowsError_Never(c) == FALSE

\* write callback: catch (e) { if (closed) { return; } throw e; }
SwallowsError(c) == c

\* dispose callback: usbManager.removeEventListener("disconnect", ...)
DisposeListeners(L) == L \ {adManager}

\* the adapter stream right after its construction with usbManager m:
\* usbManager.addEventListener("disconnect", handleUsbDisconnect)
AdConstructed(m) ==
    /\ adManager = m
    /\ adListeners = {m}
    /\ adClosed = FALSE
    /\ adDisposed = FALSE
    /\ adClosePc = "none"
    /\ adOutPc = "idle"
    /\ adOutLog = << >>
    /\ adEvents = << >>

AdInit ==
    /\ FreshSockets
    /\ NoSockets
    /\ UsbIdle
    /\ BeIdle /\ EpIdle /\ PmIdle
    /\ \E m \in Managers : AdConstructed(m)

\* a chunk reaches the sink of the adapter's writable (the factory's
\* writable accepts it only while the factory has neither begun closing nor
\* been disposed) and the write callback calls device.transferOut
AdWrite ==
    /\ adOutPc = "idle"
    /\ Len(adOutLog) < MaxUsbWrites
    /\ adClosePc = "none" /\ ~adDisposed
    /\ adOutPc' = "out"
    /\ UNCHANGED << adManager, adListeners, adClosed, adDisposed, adClosePc, adOutLog,
                    adEvents >>
    /\ UNCHANGED << sockVars, openVars, usbVars, beVars, epVars, pmVars >>

\* device.transferOut resolves
AdTransferOutOk ==
    /\ adOutPc = "out"
    /\ adOutPc' = "idle"
    /\ adOutLog' = Append(adOutLog, [outcome |-> "ok", closed |-> adClosed])
    /\ UNCHANGED << adManager, adListeners, adClosed, adDisposed, adClosePc, adEvents >>
    /\ UNCHANGED << sockVars, openVars, usbVars, beVars, epVars, pmVars >>

\* device.transferOut rejects: the catch block decides on `closed`
AdTransferOutFail ==
    /\ adOutPc = "out"
    /\ adOutPc' = "idle"
    /\ adOutLog' = Append(adOutLog,
                      [outcome |-> IF SwallowsError(adClosed) THEN "swallowed" ELSE "error",
                       closed |-> adClosed])
    /\ UNCHANGED << adManager, adListeners, adClosed, adDisposed, adClosePc, adEvents >>
    /\ UNCHANGED << sockVars, openVars, usbVars, beVars, epVars, pmVars >>

\* the factory's close (from closing or aborting the writable, or cancelling
\* the readable), once only: the close callback sets closed = true and
\* calls device.close()
AdClose ==
    /\ adClosePc = "none" /\ ~adDisposed
    /\ adClosed' = TRUE
    /\ adClosePc' = "closing"
    /\ UNCHANGED << adManager, adListeners, adDisposed, adOutPc, adOutLog, adEvents >>
    /\ UNCHANGED << sockVars, openVars, usbVars, beVars, epVars, pmVars >>

\* device.close() has settled (a rejection is caught); the close callback
\* returns undefined and the factory goes on to dispose
AdCloseDone ==
    /\ adClosePc = "closing"
    /\ adClosePc' = "done"
    /\ adDisposed' = TRUE
    /\ adListeners' = DisposeListeners(adListeners)
    /\ UNCHANGED << adManager, adClosed, adOutPc, adOutLog, adEvents >>
    /\ UNCHANGED << sockVars, openVars, usbVars, beVars, epVars, pmVars >>

\* usbManager m dispatches "disconnect" for device d: handleUsbDisconnect
\* runs if it is registered on m
AdDisconnect(m, d) ==
    /\ Len(adEvents) < MaxUsbEvents
    /\ adEvents' = Append(adEvents, [manager |-> m, device |-> d])
    /\ IF m \in adListeners /\ HandlesDisconnect(d)
       THEN /\ adDisposed' = TRUE
            /\ adListeners' = DisposeListeners(adListeners)
       ELSE UNCHANGED << adDisposed, adListeners >>
    /\ UNCHANGED << adManager, adClosed, adClosePc, adOutPc, adOutLog >>
    /\ UNCHANGED << sockVars, openVars, usbVars, beVars, epVars, pmVars >>

\* ------------------------------------------------------------ USB backend: creation and connect()
\* usbManager = window.navigator.usb: the default of an omitted argument
DefaultManager == "navigator.usb"

\* getDevices: new AdbWebUsbBackend(device, filters): the constructor's third
\* parameter takes its default
GetDevicesManager(m) == DefaultManager

\* requestDevice: new AdbWebUsbBackend(device, filters, usbManager)
RequestDeviceManager(m) == m

\* if (!this._device.opened)
NeedsOpen == ~devOpened

\* if (this._device.configuration?.configurationValue !==
\*     configuration.configurationValue)
NeedsConfiguration == devConfig # reqConfig

\* a connect() that claims the interface whatever its state
NeedsClaim_Always == TRUE

\* if (!interface_.claimed)
NeedsClaim == ~devClaimed

\* if (interface_.alternate.alternateSetting !== alternate.alternateSetting)
NeedsAlternate == devAlt # reqAlt

\* the device and the alternate interface the filters match, as connect()
\* may find them: an interface is claimed only on an opened device in its
\* own configuration, and leaves its default alternate only when claimed
DeviceStates ==
    /\ devOpened \in BOOLEAN
    /\ devConfig \in 0 .. 2
    /\ reqConfig \in 0 .. 2
    /\ reqAlt \in 0 .. 1
    /\ devClaimed \in BOOLEAN
    /\ devAlt \in 0 .. 1
    /\ devClaimed => (devOpened /\ reqConfig # 0 /\ devConfig = reqConfig)
    /\ devAlt # 0 => devClaimed

BeInit ==
    /\ FreshSockets
    /\ NoSockets
    /\ UsbIdle
    /\ AdIdle /\ EpIdle /\ PmIdle
    /\ beCall = "none"
    /\ beArg = "none"
    /\ beManager = "none"
    /\ bePc = "none"
    /\ beOps = << >>
    /\ DeviceStates

\* AdbWebUsbBackend.requestDevice(filters, m): the user picks the device
RequestDevice(m) ==
    /\ beCall = "none"
    /\ beCall' = "requestDevice"
    /\ beArg' = m
    /\ beManager' = RequestDeviceManager(m)
    /\ UNCHANGED << bePc, beOps, devOpened, devConfig, devClaimed, devAlt, reqConfig,
                    reqAlt >>
    /\ UNCHANGED << sockVars, openVars, usbVars, adVars, epVars, pmVars >>

\* AdbWebUsbBackend.getDevices(filters, m): one backend per device
GetDevices(m) ==
    /\ beCall = "none"
    /\ beCall' = "getDevices"
    /\ beArg' = m
    /\ beManager' = GetDevicesManager(m)
    /\ UNCHANGED << bePc, beOps, devOpened, devConfig, devClaimed, devAlt, reqConfig,
                    reqAlt >>
    /\ UNCHANGED << sockVars, openVars, usbVars, adVars, epVars, pmVars >>

\* connect(): open the device if needed, then findUsbAlternateInterface,
\* which throws when no alternate matches the filters
ConnectOpen(ok) ==
    /\ beCall # "none"
    /\ bePc = "none"
    /\ IF NeedsOpen
       THEN /\ beOps' = Append(beOps, "open")
            /\ devOpened' = ok
            /\ bePc' = IF ok /\ reqConfig # 0 THEN "configuration" ELSE "failed"
       ELSE /\ ok
            /\ bePc' = IF reqConfig # 0 THEN "configuration" ELSE "failed"
            /\ UNCHANGED << beOps, devOpened >>
    /\ UNCHANGED << beCall, beArg, beManager, devConfig, devClaimed, devAlt, reqConfig,
                    reqAlt >>
    /\ UNCHANGED << sockVars, openVars, usbVars, adVars, epVars, pmVars >>

\* connect(): select the configuration if it is not the current one; a new
\* configuration starts with its interfaces unclaimed at their default
\* alternate
ConnectConfiguration(ok) ==
    /\ bePc = "configuration"
    /\ IF NeedsConfiguration
       THEN /\ beOps' = Append(beOps, "selectConfiguration")
            /\ IF ok
               THEN /\ devConfig' = reqConfig
                    /\ devClaimed' = FALSE
                    /\ devAlt' = 0
               ELSE UNCHANGED << devConfig, devClaimed, devAlt >>
            /\ bePc' = IF ok THEN "claim" ELSE "failed"
       ELSE /\ ok
            /\ bePc' = "claim"
            /\ UNCHANGED << beOps, devConfig, devClaimed, devAlt >>
    /\ UNCHANGED << beCall, beArg, beManager, devOpened, reqConfig, reqAlt >>
    /\ UNCHANGED << sockVars, openVars, usbVars, adVars, epVars, pmVars >>

\* connect(): claim the interface if it is not claimed
ConnectClaim(ok) ==
    /\ bePc = "claim"
    /\ IF NeedsClaim
       THEN /\ beOps' = Append(beOps, "claimInterface")
            /\ devClaimed' = ok
            /\ bePc' = IF ok THEN "alternate" ELSE "failed"
       ELSE /\ ok
            /\ bePc' = "alternate"
            /\ UNCHANGED << beOps, devClaimed >>
    /\ UNCHANGED << beCall, beArg, beManager, devOpened, devConfig, devAlt, reqConfig,
                    reqAlt >>
    /\ UNCHANGED << sockVars, openVars, usbVars, adVars, epVars, pmVars >>

\* connect(): select the alternate interface if it is not the current one
ConnectAlternate(ok) ==
    /\ bePc = "alternate"
    /\ IF NeedsAlternate
       THEN /\ beOps' = Append(beOps, "selectAlternateInterface")
            /\ devAlt' = IF ok THEN reqAlt ELSE devAlt
            /\ bePc' = IF ok THEN "stream" ELSE "failed"
       ELSE /\ ok
            /\ bePc' = "stream"
            /\ UNCHANGED << beOps, devAlt >>
    /\ UNCHANGED << beCall, beArg, beManager, devOpened, devConfig, devClaimed, reqConfig,
                    reqAlt >>
    /\ UNCHANGED << sockVars, openVars, usbVars, adVars, epVars, pmVars >>

\* connect(): new AdbWebUsbBackendStream(device, inEndpoint, outEndpoint,
\* this._usbManager), whose constructor registers the disconnect listener
ConnectStream ==
    /\ bePc = "stream"
    /\ bePc' = "done"
    /\ adManager' = beManager
    /\ adListeners' = {beManager}
    /\ adClosed' = FALSE
    /\ adDisposed' = FALSE
    /\ adClosePc' = "none"
    /\ adOutPc' = "idle"
    /\ adOutLog' = << >>
    /\ adEvents' = << >>
    /\ UNCHANGED << beCall, beArg, beManager, beOps, devOpened, devConfig, devClaimed,
                    devAlt, reqConfig, reqAlt >>
    /\ UNCHANGED << sockVars, openVars, usbVars, epVars, pmVars >>

\* ------------------------------------------------------------ findUsbEndpoints
\* what an alternate interface may list: endpoints by direction, identified
\* by their position in the list
EndpointLists == UNION { [1 .. k -> {"in", "out"}] : k \in 0 .. MaxEndpoints }

EpInit ==
    /\ FreshSockets
    /\ NoSockets
    /\ UsbIdle
    /\ AdIdle /\ BeIdle /\ PmIdle
    /\ epList \in EndpointLists
    /\ epIdx = 0
    /\ epIn = 0
    /\ epOut = 0
    /\ epRes = "none"

\* case "in": inEndpoint = endpoint / case "out": outEndpoint = endpoint:
\* the variable takes the endpoint visited, whatever it held
EndpointAssigned(held, visited) == visited

\* if (endpoints.length === 0) throw new Error("No endpoints given")
EpCheck ==
    /\ epRes = "none"
    /\ epRes' = IF Len(epList) = 0 THEN "No endpoints given" ELSE "running"
    /\ UNCHANGED << epList, epIdx, epIn, epOut >>
    /\ UNCHANGED << sockVars, openVars, usbVars, adVars, beVars, pmVars >>

\* one iteration of `for (const endpoint of endpoints)`
EpVisit ==
    /\ epRes = "running"
    /\ epIdx < Len(epList)
    /\ epIdx' = epIdx + 1
    /\ IF epList[epIdx + 1] = "in"
       THEN /\ epIn' = EndpointAssigned(epIn, epIdx + 1)
            /\ epRes' = IF epOut # 0 THEN "returned" ELSE epRes
            /\ UNCHANGED epOut
       ELSE /\ epOut' = EndpointAssigned(epOut, epIdx + 1)
            /\ epRes' = IF epIn # 0 THEN "returned" ELSE epRes
            /\ UNCHANGED epIn
    /\ UNCHANGED epList
    /\ UNCHANGED << sockVars, openVars, usbVars, adVars, beVars, pmVars >>

\* after the loop: one direction is missing
EpEnd ==
    /\ epRes = "running"
    /\ epIdx = Len(epList)
    /\ epRes' = IF epIn = 0 THEN "No input endpoint found."
                ELSE IF epOut = 0 THEN "No output endpoint found."
                ELSE "unreachable"
    /\ UNCHANGED << epList, epIdx, epIn, epOut >>
    /\ UNCHANGED << sockVars, openVars, usbVars, adVars, beVars, pmVars >>

\* ------------------------------------------------------------ PackageManager.pushAndInstallStream
\* what `pm install` may print
InstallOutputs == {"Success", "Failure [INSTALL_FAILED_INVALID_APK]",
                   "Failure [INSTALL_FAILED_INSUFFICIENT_STORAGE]"}

PmInit ==
    /\ FreshSockets
    /\ NoSockets
    /\ UsbIdle
    /\ AdIdle /\ BeIdle /\ EpIdle
    /\ pmPc = "sync"
    /\ pmStream \in 1 .. MaxApkChunks
    /\ pmPushed = 0
    /\ pmSync = "none"
    /\ pmFile = FALSE
    /\ pmSpawned = 0
    /\ pmOutput \in InstallOutputs
    /\ pmRes = "pending"

\* const sync = await this.adb.sync()
PmSync(ok) ==
    /\ pmPc = "sync"
    /\ pmSync' = IF ok THEN "open" ELSE pmSync
    /\ pmPc' = IF ok THEN "write" ELSE "done"
    /\ pmRes' = IF ok THEN pmRes ELSE "sync failed"
    /\ UNCHANGED << pmStream, pmPushed, pmFile, pmSpawned, pmOutput >>
    /\ UNCHANGED << sockVars, openVars, usbVars, adVars, beVars, epVars >>

\* await sync.write({ filename: filePath, file: stream }): the next chunk of
\* the stream is pushed to the temporary file, or the push fails
PmWrite(ok) ==
    /\ pmPc = "write"
    /\ IF ok
       THEN /\ pmPushed' = pmPushed + 1
            /\ pmFile' = TRUE
            /\ pmPc' = IF pmPushed + 1 = pmStream THEN "pushed" ELSE pmPc
       ELSE /\ pmPc' = "push failed"
            /\ UNCHANGED << pmPushed, pmFile >>
    /\ UNCHANGED << pmStream, pmSync, pmSpawned, pmOutput, pmRes >>
    /\ UNCHANGED << sockVars, openVars, usbVars, adVars, beVars, epVars >>

\* finally { await sync.dispose(); }: after it a failed push fails the call
\* (the two clean-up operations, dispose and rm, are taken to succeed)
PmDispose ==
    /\ pmPc \in {"pushed", "push failed"}
    /\ pmSync' = "disposed"
    /\ pmPc' = IF pmPc = "pushed" THEN "spawn" ELSE "done"
    /\ pmRes' = IF pmPc = "push failed" THEN "push failed" ELSE pmRes
    /\ UNCHANGED << pmStream, pmPushed, pmFile, pmSpawned, pmOutput >>
    /\ UNCHANGED << sockVars, openVars, usbVars, adVars, beVars, epVars >>

\* const process = await this.adb.subprocess.spawn(...)
PmSpawn(ok) ==
    /\ pmPc = "spawn"
    /\ pmSpawned' = IF ok THEN pmSpawned + 1 ELSE pmSpawned
    /\ pmPc' = IF ok THEN "output" ELSE "done"
    /\ pmRes' = IF ok THEN pmRes ELSE "spawn failed"
    /\ UNCHANGED << pmStream, pmPushed, pmSync, pmFile, pmOutput >>
    /\ UNCHANGED << sockVars, openVars, usbVars, adVars, beVars, epVars >>

\* const output = await process.stdout.pipeThrough(...)...
PmReadOutput(ok) ==
    /\ pmPc = "output"
    /\ pmPc' = IF ok THEN "rm" ELSE "done"
    /\ pmRes' = IF ok THEN pmRes ELSE "output failed"
    /\ UNCHANGED << pmStream, pmPushed, pmSync, pmFile, pmSpawned, pmOutput >>
    /\ UNCHANGED << sockVars, openVars, usbVars, adVars, beVars, epVars >>

\* await this.adb.rm(filePath); then if (output !== "Success") throw new
\* Error(output)
PmRm ==
    /\ pmPc = "rm"
    /\ pmFile' = FALSE
    /\ pmPc' = "done"
    /\ pmRes' = IF pmOutput # "Success" THEN pmOutput ELSE "ok"
    /\ UNCHANGED << pmStream, pmPushed, pmSync, pmSpawned, pmOutput >>
    /\ UNCHANGED << sockVars, openVars, usbVars, adVars, beVars, epVars >>

\* ------------------------------------------------------------ specification
Next ==
    \/ \E s \in Sockets, n \in 1 .. MaxWriteLen : Write(s, n)
    \/ \E s \in Sockets : SinkWrite(s)
    \/ \E s \in Sockets : SinkWriteSettle(s)
    \/ Deliver
    \/ DeliverFail
    \/ \E s \in Sockets : Close(s)
    \/ \E s \in Sockets : ReadableCancel(s)
    \/ \E s \in Sockets : WritableEnd(s)
    \/ \E s \in Sockets, r \in RemoteIds : RecvOkay(s, r)
    \/ \E s \in Sockets : RecvClse(s)
    \/ \E s \in Sockets : RecvWrte(s)
    \/ \E s \in Sockets : Enqueue(s)
    \/ \E s \in Sockets : Read(s)
    \/ TransportFail

Spec == Init /\ [][Next]_vars

\* continuations of settled promises and the mailbox always get to run
Fairness ==
    /\ \A s \in Sockets : WF_vars(SinkWrite(s)) /\ WF_vars(SinkWriteSettle(s))
    /\ WF_vars(Deliver)
    /\ WF_vars(DeliverFail)

FairSpec == Spec /\ Fairness

\* the dispatcher from its creation on: sockets are opened by this side and
\* by the peer
OpenNext ==
    \/ Next
    \/ Open
    \/ \E r \in RemoteIds, handler \in Handlers : RecvOpen(r, handler)

OpenSpec == OpenInit /\ [][OpenNext]_vars

\* the inbound half of the transport adapter
UsbNext == UsbPullHeader \/ UsbPullPayload

UsbSpec == UsbInit /\ [][UsbNext]_vars

\* the adapter stream from its construction on
AdNext ==
    \/ AdWrite
    \/ AdTransferOutOk
    \/ AdTransferOutFail
    \/ AdClose
    \/ AdCloseDone
    \/ \E m \in Managers, d \in Devices : AdDisconnect(m, d)

AdSpec == AdInit /\ [][AdNext]_vars

\* a backend from its creation to the end of connect()
BeNext ==
    \/ \E m \in Managers : RequestDevice(m)
    \/ \E m \in Managers : GetDevices(m)
    \/ \E ok \in BOOLEAN : ConnectOpen(ok)
    \/ \E ok \in BOOLEAN : ConnectConfiguration(ok)
    \/ \E ok \in BOOLEAN : ConnectClaim(ok)
    \/ \E ok \in BOOLEAN : ConnectAlternate(ok)
    \/ ConnectStream

BeSpec == BeInit /\ [][BeNext]_vars

\* one call of findUsbEndpoints
EpNext == EpCheck \/ EpVisit \/ EpEnd

EpSpec == EpInit /\ [][EpNext]_vars

\* one call of pushAndInstallStream
PmNext ==
    \/ \E ok \in BOOLEAN : PmSync(ok)
    \/ \E ok \in BOOLEAN : PmWrite(ok)
    \/ PmDispose
    \/ \E ok \in BOOLEAN : PmSpawn(ok)
    \/ \E ok \in BOOLEAN : PmReadOutput(ok)
    \/ PmRm

PmSpec == PmInit /\ [][PmNext]_vars

TypeOK ==
    /\ closed \in [Sockets -> BOOLEAN]
    /\ writePromise \in [Sockets -> {"undefined", "pending", "resolved", "rejected"}]
    /\ wpc \in [Sockets -> {"idle", "sending", "waiting"}]
    /\ wres \in [Sockets -> {"none", "busy", "ok", "SocketClosed", "TransportFailed"}]
    /\ sockets \subseteq Sockets

\* ------------------------------------------------------------ claims
Wrtes(log) == SelectCmd(log, "WRTE")

\* WRTE packets socket s has sent
WrteSent(s) == Len(Wrtes(sent[s]))

\* socket s has initiated a local close: its close callback sent a CLSE
LocalClseSent(s) ==
    \E i \in 1 .. Len(sent[s]) : sent[s][i].cmd = "CLSE" /\ sent[s][i].from = "close"

\* this side has sent CLSE(localId, remoteId) for socket s
ClseSent(s) ==
    \E i \in 1 .. Len(sent[s]) :
        /\ sent[s][i].cmd = "CLSE"
        /\ sent[s][i].arg0 = s
        /\ sent[s][i].arg1 = RemoteId(s)

\* C1 as stated: for every socket, WRTE packets sent minus OKAY packets
\* received is 0 or 1 in every reachable state.
C1_OneInFlight_AsClaimed ==
    \A s \in Sockets : WrteSent(s) - okayRecv[s] \in {0, 1}

\* C1 (amended): for every socket, WRTE packets sent minus the OKAY packets
\* received while a write was awaiting its ack is 0 or 1 in every reachable
\* state; an OKAY received when no write awaits an ack is dropped and is not
\* counted.
C1_OneInFlight ==
    \A s \in Sockets : WrteSent(s) - okayAcked[s] \in {0, 1}

\* a second WRTE is in flight after the first was acked, and an OKAY that
\* acked nothing was received as well
C1_Witness ==
    \E s \in Sockets : WrteSent(s) = 2 /\ okayAcked[s] = 1 /\ okayRecv[s] = 2

\* the WRTE payloads socket s has sent for the write call in progress (or the
\* latest one): one per chunk written and acked, plus the one in flight
C2_SentOfWrite(s) ==
    LET w == Payloads(Wrtes(sent[s]))
        k == done[s] + (IF wpc[s] # "idle" THEN 1 ELSE 0)
    IN  IF k <= Len(w) THEN SubSeq(w, Len(w) - k + 1, Len(w)) ELSE << "missing" >>

\* C2: the WRTEs of one write call are its chunks c1..ck in chunk order, and
\* a WRTE is sent only when every WRTE sent before it on the socket has been
\* acknowledged by an OKAY received after it was sent (5 bytes with
\* maxPayloadSize 2 give WRTEs of sizes 2, 2, 1).
C2_WriteGating ==
    /\ [](\A s \in Sockets :
            wres[s] \in {"busy", "ok"} =>
                C2_SentOfWrite(s) = SubSeq(chunks[s], 1, Len(C2_SentOfWrite(s))))
    /\ [][\A s \in Sockets :
            WrteSent(s)' # WrteSent(s) =>
                /\ WrteSent(s)' = WrteSent(s) + 1
                /\ okayAcked[s] = WrteSent(s)]_vars

\* a write of 5 bytes completed with three WRTEs of sizes 2, 2, 1
C2_Witness ==
    \E s \in Sockets :
        /\ wres[s] = "ok"
        /\ nWritten[s] = 2 * MaxPayloadSize + 1
        /\ Payloads(Wrtes(Wire(s)))
             = << Bytes(0, MaxPayloadSize), Bytes(MaxPayloadSize, MaxPayloadSize),
                  Bytes(2 * MaxPayloadSize, 1) >>

\* C3: no WRTE packet a socket sends carries more than maxPayloadSize bytes.
C3_ChunkingBound ==
    \A s \in Sockets : \A i \in 1 .. Len(sent[s]) :
        sent[s][i].cmd = "WRTE" => Len(sent[s][i].payload) <= MaxPayloadSize

\* a write longer than maxPayloadSize was cut: a full chunk reached the
\* transport and the rest followed in a shorter one
C3_Witness ==
    \E s \in Sockets : \E i, j \in 1 .. delivered[s] :
        /\ i < j
        /\ sent[s][i].cmd = "WRTE" /\ Len(sent[s][i].payload) = MaxPayloadSize
        /\ sent[s][j].cmd = "WRTE" /\ Len(sent[s][j].payload) < MaxPayloadSize
        /\ Len(chunks[s]) > 1

\* C4: the payloads of the WRTE packets that reached the transport for a
\* socket, concatenated in order, are always the first bytes written to it,
\* and are all the bytes written once every write has completed.
C4_OutboundByteOrder ==
    \A s \in Sockets :
        LET w == Concat(Payloads(Wrtes(Wire(s))))
        IN  /\ Len(w) <= nWritten[s]
            /\ w = Bytes(0, Len(w))
            /\ wres[s] = "ok" => w = Bytes(0, nWritten[s])

\* two writes completed on one socket
C4_Witness ==
    \E s \in Sockets :
        /\ wres[s] = "ok"
        /\ nWritten[s] > Len(Concat(chunks[s]))
        /\ Len(Concat(Payloads(Wrtes(Wire(s))))) = nWritten[s]

\* C5: when a socket is disposed while a write is suspended on its
\* _writePromise, the promise is rejected, the write never succeeds, and the
\* write call fails with the socket-closed error.
C5_DisposeFailsWrite ==
    /\ [][\A s \in Sockets :
            (wpc[s] = "waiting" /\ writePromise[s] = "pending"
                /\ ~closed[s] /\ closed'[s])
            => writePromise'[s] = "rejected"]_vars
    /\ [](\A s \in Sockets : writePromise[s] = "rejected" => wres[s] # "ok")
    /\ \A s \in Sockets :
          (wpc[s] = "waiting" /\ writePromise[s] = "rejected")
              ~> (wres[s] = "SocketClosed")

\* a write whose WRTE had reached the transport failed with the socket-closed
\* error because the peer's CLSE disposed the socket
C5_Witness ==
    \E s \in Sockets :
        /\ closed[s] /\ transport = "up"
        /\ writePromise[s] = "rejected"
        /\ wres[s] = "SocketClosed"
        /\ Len(Wrtes(Wire(s))) = 1

\* C6: initiating a local close sends CLSE(localId, remoteId) and does not
\* dispose; from then on the socket stays not closed and in the dispatcher's
\* table in every step in which no CLSE of the peer arrives for it (and the
\* transport stays up).
C6_TwoPhaseClose ==
    [][\A s \in Sockets :
        /\ (~LocalClseSent(s) /\ LocalClseSent(s)') =>
              /\ sent'[s] = Append(sent[s],
                                Packet(s, "CLSE", s, RemoteId(s), << >>, "close"))
              /\ ~closed'[s]
              /\ s \in sockets'
        /\ (LocalClseSent(s) /\ ~closed[s] /\ clseRecv'[s] = clseRecv[s]
                /\ transport' = "up") =>
              /\ ~closed'[s]
              /\ s \in sockets']_vars

\* the CLSE of a local close has reached the transport and the socket is
\* still not closed and still in the table
C6_Witness ==
    \E s \in Sockets :
        /\ \E i \in 1 .. delivered[s] : sent[s][i].from = "close"
        /\ ~closed[s]
        /\ s \in sockets

\* C7: a socket is closed if and only if this side has sent a CLSE for it and
\* a CLSE of the peer for it has been received, or the dispatcher has torn
\* down.
C7_CloseSymmetry ==
    \A s \in Sockets :
        closed[s] <=> ((ClseSent(s) /\ clseRecv[s] >= 1) \/ transport = "down")

\* one socket closed by a local close answered by the peer, another closed by
\* a close of the peer, the transport still up
C7_Witness ==
    /\ transport = "up"
    /\ \E s \in Sockets : closed[s] /\ LocalClseSent(s)
    /\ \E s \in Sockets : closed[s] /\ ~LocalClseSent(s)

\* C8: once a local close has been initiated on a socket it sends no further
\* WRTE (so none follows its CLSE), and a write call whose next chunk reaches
\* the sink after that fails with the socket-closed error.
C8_NoWriteAfterClose ==
    /\ [][\A s \in Sockets :
            LocalClseSent(s) =>
                /\ WrteSent(s)' = WrteSent(s)
                /\ (wres[s] = "busy" /\ wpc[s] = "idle" /\ wres'[s] # "busy")
                       => wres'[s] = "SocketClosed"]_vars
    /\ [](\A s \in Sockets : \A i, j \in 1 .. Len(sent[s]) :
            (i < j /\ sent[s][i].cmd = "CLSE" /\ sent[s][i].from = "close")
                => sent[s][j].cmd # "WRTE")

\* a write call made after the local close failed with the socket-closed
\* error while the socket was still waiting for the peer's CLSE
C8_Witness ==
    \E s \in Sockets :
        /\ LocalClseSent(s) /\ ~closed[s]
        /\ wres[s] = "SocketClosed"
        /\ WrteSent(s) = 0

\* C9: when a CLSE arrives for a stored socket that is not closed and for
\* which this side has sent no CLSE, this side sends CLSE(localId, remoteId),
\* disposes the socket, removes it from the table, rejects the pending write
\* ack and ends the readable half.
C9_PeerClose ==
    [][\A s \in Sockets :
        (clseRecv'[s] = clseRecv[s] + 1 /\ s \in sockets /\ ~closed[s]
            /\ ~ClseSent(s)) =>
              /\ sent'[s] = Append(sent[s],
                                Packet(s, "CLSE", s, RemoteId(s), << >>, "router"))
              /\ closed'[s]
              /\ s \notin sockets'
              /\ writePromise[s] = "pending" => writePromise'[s] = "rejected"
              /\ readable'[s] = "ended"
              /\ reader[s] = "pending" => reader'[s] = "SocketClosed"]_vars

\* the peer closed a socket that had a write and a read pending
C9_Witness ==
    \E s \in Sockets :
        /\ closed[s] /\ transport = "up" /\ s \notin sockets
        /\ ~LocalClseSent(s) /\ ClseSent(s)
        /\ writePromise[s] = "rejected"
        /\ readable[s] = "ended"
        /\ reader[s] = "SocketClosed"

\* C10: the step in which the transport fails closes every stored socket,
\* rejects its pending write ack and fails its pending read; afterwards every
\* socket is closed, no packet is sent or reaches the transport, and every
\* write whose ack was rejected eventually fails with an error.
C10_Teardown ==
    /\ [][(transport = "up" /\ transport' = "down") =>
            \A s \in sockets :
                /\ closed'[s]
                /\ writePromise[s] = "pending" => writePromise'[s] = "rejected"
                /\ reader[s] = "pending" => reader'[s] = "SocketClosed"]_vars
    /\ [](transport = "down" => \A s \in Sockets : closed[s] /\ reader[s] # "pending")
    /\ [][transport = "down" => sent' = sent /\ delivered' = delivered]_vars
    /\ \A s \in Sockets :
          (transport = "down" /\ wres[s] = "busy" /\ writePromise[s] = "rejected")
              ~> (wres[s] \in {"SocketClosed", "TransportFailed"})

\* the transport failed while a socket had a WRTE on the wire and a read
\* pending: both failed
C10_Witness ==
    \E s \in Sockets :
        /\ transport = "down"
        /\ Len(Wrtes(Wire(s))) = 1
        /\ writePromise[s] = "rejected"
        /\ wres[s] = "SocketClosed"
        /\ reader[s] = "SocketClosed"

\* the number of times local id s has been handed out
TimesAllocated(s) == Cardinality({ i \in 1 .. Len(allocated) : allocated[i] = s })

\* C11: the ids in the dispatcher's table (its non-closed sockets) were each
\* handed out exactly once, so no two of them share a local id; no local id
\* is 0; and ids are handed out in strictly increasing order starting at 1.
C11_IdUniqueness ==
    /\ \A s \in sockets \cup opening : TimesAllocated(s) = 1
    /\ \A i \in 1 .. Len(allocated) : allocated[i] # 0
    /\ allocated # << >> => allocated[1] = 1
    /\ \A i, j \in 1 .. Len(allocated) : i < j => allocated[i] < allocated[j]

\* two sockets are stored at once, one opened by this side and one by the peer
C11_Witness ==
    /\ Len(allocated) = 2
    /\ \E s, u \in sockets : s # u /\ localCreated[s] /\ ~localCreated[u]

\* the socket of local id s has left OPENING
C12_Opened(s) == State(s) \in {"ESTABLISHED", "HALF_CLOSED", "CLOSED"}

\* the steps of open(): it sends OPEN(localId, 0, service + NUL), and it
\* resolves only in the step in which an OKAY(r, localId) arrives, with a
\* socket that is ESTABLISHED and has remoteId r
C12_OpenSteps ==
    \A s \in Sockets :
        /\ (s \notin opening /\ s \in opening') =>
              /\ sent'[s] = Append(sent[s],
                                Packet(s, "OPEN", s, 0, Service \o << 0 >>, "open"))
              /\ openRes'[s] = "pending"
        /\ (openRes[s] = "pending" /\ openRes'[s] = "resolved") =>
              /\ okayRecv'[s] = okayRecv[s] + 1
              /\ \E r \in RemoteIds : RecvOkay(s, r) /\ remoteId'[s] = r
              /\ State(s)' = "ESTABLISHED"

\* C12 as stated: open() sends OPEN(localId, 0, service + NUL) and resolves
\* only when an OKAY(remoteId, localId) arrives; the returned socket has that
\* localId and remoteId, both nonzero; and a socket is ESTABLISHED exactly
\* when both ids are known and nonzero.
C12_OpenSuccess_AsClaimed ==
    /\ [][C12_OpenSteps]_vars
    /\ [](\A s \in Sockets : openRes[s] = "resolved" => s # 0 /\ remoteId[s] # 0)
    /\ [](\A s \in Sockets :
            State(s) = "ESTABLISHED" <=> (s # 0 /\ remoteId[s] # 0))

\* C12 (amended): open() sends OPEN(localId, 0, service + NUL) and resolves
\* only when an OKAY(remoteId, localId) arrives; the returned socket is then
\* ESTABLISHED and has that localId and remoteId, both nonzero; and a socket
\* has left OPENING (it is ESTABLISHED, HALF_CLOSED or CLOSED) exactly when
\* both ids are known and nonzero: the ids stay known after a close.
C12_OpenSuccess ==
    /\ [][C12_OpenSteps]_vars
    /\ [](\A s \in Sockets : openRes[s] = "resolved" => s # 0 /\ remoteId[s] # 0)
    /\ [](\A s \in Sockets : C12_Opened(s) <=> (s # 0 /\ remoteId[s] # 0))

\* an open() resolved with a remote id of the peer's choosing after its OPEN
\* had reached the transport, and the socket has since been closed by the peer
C12_Witness ==
    \E s \in Sockets :
        /\ openRes[s] = "resolved"
        /\ remoteId[s] # RemoteId(s)
        /\ delivered[s] >= 1 /\ sent[s][1].cmd = "OPEN"
        /\ State(s) = "CLOSED"

\* what the rest of the program can see of the socket of local id u
C13_SocketView(u) ==
    << closed[u], writePromise[u], wpc[u], writableClosed[u], chunks[u], done[u],
       wres[u], readable[u], reader[u], inboundQueue[u], received[u], remoteId[u],
       openRes[u], u \in sockets, u \in opening, sent[u] >>

\* C13: the step in which a CLSE arrives for an OPENING local id fails that
\* open() with ServiceUnavailable and removes the id from the table, sends
\* nothing, and leaves every other socket as it was.
C13_RejectedOpenConfined ==
    [][\A s \in Sockets :
        (s \in opening /\ clseRecv'[s] = clseRecv[s] + 1) =>
            /\ openRes'[s] = "ServiceUnavailable"
            /\ s \notin opening' /\ s \notin sockets'
            /\ outbox' = outbox
            /\ \A u \in Sockets \ {s} : C13_SocketView(u)' = C13_SocketView(u)]_vars

\* an open() failed with ServiceUnavailable while another socket had a write
\* awaiting its ack and a payload buffered; both are still there
C13_Witness ==
    \E s, u \in Sockets :
        /\ openRes[s] = "ServiceUnavailable"
        /\ s \notin sockets \cup opening
        /\ State(u) = "ESTABLISHED"
        /\ writePromise[u] = "pending"
        /\ inboundQueue[u] # << >>

\* OKAY acks the routing loop has sent for the WRTEs of socket s
AcksSent(s) ==
    Cardinality({ i \in 1 .. Len(sent[s]) :
                    sent[s][i].cmd = "OKAY" /\ sent[s][i].from = "router" })

\* C14: an OKAY ack is never sent for a payload the readable half has not yet
\* accepted; the step in which a payload is accepted sends its
\* OKAY(localId, remoteId); a WRTE read for a stored socket makes the routing
\* loop wait for that, and the loop reads a packet from the transport only
\* when it waits for no enqueue and every accepted payload has been acked.
C14_AckBackOrdering ==
    /\ [](\A s \in Sockets : AcksSent(s) <= accepted[s])
    /\ [](loop = 0 => \A s \in Sockets : AcksSent(s) = accepted[s])
    /\ [][\A s \in Sockets :
            /\ accepted'[s] # accepted[s] =>
                  /\ accepted'[s] = accepted[s] + 1
                  /\ sent'[s] = Append(sent[s],
                                    Packet(s, "OKAY", s, remoteId[s], << >>, "router"))
            /\ (wrteRecv'[s] # wrteRecv[s] /\ s \in sockets) => loop' = s
            /\ (wrteRecv'[s] # wrteRecv[s] \/ okayRecv'[s] # okayRecv[s]
                    \/ clseRecv'[s] # clseRecv[s]) => loop = 0]_vars

\* the buffer of a socket is full: a further WRTE has been read for it, its
\* payload is not accepted yet, and no OKAY has been sent for it
C14_Witness ==
    \E s \in Sockets :
        /\ loop = s
        /\ ~EnqueueAccepts(s)
        /\ accepted[s] = MaxQueue
        /\ wrteRecv[s] = accepted[s] + 1
        /\ AcksSent(s) = accepted[s]

C16_SocketView(u) ==
    << closed[u], writePromise[u], wpc[u], writableClosed[u], chunks[u], done[u],
       wres[u], readable[u], reader[u], inboundQueue[u], received[u],
       u \in sockets >>

\* C16: the step in which an OKAY arrives for a stored socket that has no
\* write awaiting an ack sends no packet and changes no socket; and every
\* write that has completed got, for each of its WRTEs, an OKAY received
\* while it awaited one.
C16_SpuriousOkay ==
    /\ [][\A s \in Sockets :
            (okayRecv'[s] = okayRecv[s] + 1 /\ s \in sockets
                /\ writePromise[s] # "pending") =>
                  /\ outbox' = outbox /\ sent' = sent
                  /\ okayAcked' = okayAcked
                  /\ \A u \in Sockets : C16_SocketView(u)' = C16_SocketView(u)]_vars
    /\ [](\A s \in Sockets : okayAcked[s] <= WrteSent(s))
    /\ [](\A s \in Sockets : wres[s] = "ok" => okayAcked[s] = WrteSent(s))

\* an OKAY arrived before any write; the write made afterwards has its WRTE on
\* the wire and still waits for its own OKAY
C16_Witness ==
    \E s \in Sockets :
        /\ okayRecv[s] >= 1 /\ okayAcked[s] = 0
        /\ wpc[s] = "waiting" /\ writePromise[s] = "pending"
        /\ wres[s] = "busy"

\* C17: the step in which an OPEN(r, 0, service) arrives either, when no
\* handler is registered or the handler rejects, sends CLSE(0, r) and stores
\* and allocates nothing, or, when the handler accepts, hands out a local id
\* L that was never handed out before, stores an ESTABLISHED socket L with
\* localCreated = false and remoteId r, and sends OKAY(L, r).
C17_ReverseOpen ==
    [][\A r \in RemoteIds, handler \in Handlers :
        RecvOpen(r, handler) =>
            IF handler = "accept"
            THEN \E L \in Sockets :
                    /\ TimesAllocated(L) = 0
                    /\ L \notin sockets \cup opening
                    /\ allocated' = Append(allocated, L)
                    /\ sockets' = sockets \cup {L}
                    /\ opening' = opening
                    /\ State(L)' = "ESTABLISHED"
                    /\ ~localCreated'[L]
                    /\ remoteId'[L] = r
                    /\ sent' = [sent EXCEPT ![L] =
                                   Append(@, Packet(L, "OKAY", L, r, << >>, "accept"))]
            ELSE /\ sockets' = sockets
                 /\ opening' = opening
                 /\ allocated' = allocated
                 /\ sent' = [sent EXCEPT ![0] =
                                Append(@, Packet(0, "CLSE", 0, r, << >>, "router"))]]_vars

\* the peer opened two sockets: one was refused with a CLSE that reached the
\* transport, the other is stored and its OKAY reached the transport
C17_Witness ==
    /\ delivered[0] = 1 /\ sent[0][1].cmd = "CLSE"
    /\ \E L \in sockets :
          /\ ~localCreated[L]
          /\ State(L) = "ESTABLISHED"
          /\ delivered[L] = 1 /\ sent[L][1].cmd = "OKAY"

RECURSIVE PacketReads(_)
PacketReads(pkts) ==
    IF pkts = << >> THEN << >>
    ELSE << 24 >>
         \o (IF Head(pkts).payloadLength # 0
             THEN << Head(pkts).payloadLength >> ELSE << >>)
         \o PacketReads(Tail(pkts))

\* C19: the bulk reads made so far are, packet by packet for the packets
\* enqueued, one read of 24 bytes and then, only for a nonzero payloadLength,
\* one read of payloadLength bytes (plus the header read of the pull in
\* progress); each completed pull enqueued exactly one packet; and the i-th
\* packet enqueued is the i-th packet of the device, with an empty payload
\* when its payloadLength is 0.
C19_TransportFraming ==
    /\ usbReads = PacketReads(usbPackets) \o (IF usbPc = "header" THEN << 24 >> ELSE << >>)
    /\ Len(usbPackets) = usbPulls
    /\ \A i \in 1 .. Len(usbPackets) :
          /\ usbPackets[i].payloadLength = usbDevice[i]
          /\ usbPackets[i].payload =
                IF usbDevice[i] = 0 THEN EmptyPayload
                ELSE [bytes |-> usbDevice[i], packet |-> i]

\* the adapter has enqueued every packet of a device that sent a packet
\* without payload followed by packets with one
C19_Witness ==
    /\ usbPulls = MaxUsbPackets
    /\ usbPc = "idle"
    /\ usbPackets[1].payloadLength = 0
    /\ \A i \in 2 .. MaxUsbPackets : usbPackets[i].payloadLength = MaxUsbPayload

\* CLSE packets this side has sent for socket s
ClsesSent(s) ==
    Cardinality({ i \in 1 .. Len(sent[s]) :
                    sent[s][i].cmd = "CLSE" /\ sent[s][i].arg0 = s })

C21_AckAfterHandover ==
    [][\A s \in Sockets :
        /\ done'[s] = done[s] + 1 => writePromise[s] = "resolved"
        /\ (writePromise[s] = "pending" /\ writePromise'[s] = "resolved") =>
              okayRecv'[s] = okayRecv[s] + 1
        /\ (wpc[s] = "sending" /\ wpc'[s] = "waiting") =>
              writePromise'[s] = "pending"]_vars

\* C22: once the promise close() returned has resolved, CLSE(localId,
\* remoteId) has been passed to sendPacket (or the socket was disposed
\* before), and when the sendPacket of the CLSE that a close() call started
\* fails, the promise close() returned is rejected.
C22_CloseReports ==
    \A s \in Sockets :
        /\ CloseResult(closeCall[s]) = "resolved" =>
              (closed[s] \/ \E i \in 1 .. Len(sent[s]) :
                  sent[s][i] = Packet(s, "CLSE", s, remoteId[s], << >>, "close"))
        /\ closeCall[s] = "rejected" => CloseResult(closeCall[s]) = "rejected"

\* C23: every transferOut failure made the write fail if the adapter's close
\* had not begun (closed was false) and was swallowed if it had; and closed,
\* once true, stays true.
C23_OutboundErrors ==
    /\ [](\A i \in 1 .. Len(adOutLog) :
            /\ (adOutLog[i].outcome = "error") => ~adOutLog[i].closed
            /\ (adOutLog[i].outcome = "swallowed") => adOutLog[i].closed)
    /\ [][Len(adOutLog') > Len(adOutLog) =>
            LET e == adOutLog'[Len(adOutLog')]
            IN  /\ e.closed = adClosed
                /\ AdTransferOutFail => e.outcome = (IF adClosed THEN "swallowed" ELSE "error")]_vars
    /\ [][adClosed => adClosed']_vars

\* a transferOut failed before the close began and failed the write, and a
\* later transferOut that was in progress when the close began failed and
\* was swallowed
C23_Witness ==
    /\ Len(adOutLog) = 2
    /\ adOutLog[1] = [outcome |-> "error", closed |-> FALSE]
    /\ adOutLog[2] = [outcome |-> "swallowed", closed |-> TRUE]

\* C24: a "disconnect" event disposes the stream only if it is for the
\* stream's own device; an event for another device leaves the stream and
\* its listener registration unchanged; and once the stream is disposed or
\* its close has completed, its listener is registered on no usbManager.
C24_DisconnectHandling ==
    /\ [][\A m \in Managers, d \in Devices :
            AdDisconnect(m, d) =>
                /\ (adDisposed' # adDisposed) => d = OwnDevice
                /\ d # OwnDevice =>
                      UNCHANGED << adManager, adListeners, adClosed, adDisposed,
                                   adClosePc, adOutPc, adOutLog >>]_vars
    /\ []((adDisposed \/ adClosePc = "done") => adListeners = {})

\* the stream, constructed with the caller's usbManager, saw the disconnect
\* of another device and then that of its own device, which disposed it
C24_Witness ==
    /\ adManager = "custom"
    /\ adEvents = << [manager |-> "custom", device |-> 2],
                     [manager |-> "custom", device |-> OwnDevice] >>
    /\ adDisposed /\ adClosePc = "none"
    /\ adListeners = {}

\* the device is opened, in the matched configuration, with the interface
\* claimed at the matched alternate
DeviceReady ==
    /\ devOpened
    /\ devConfig = reqConfig
    /\ devClaimed
    /\ devAlt = reqAlt

\* position of a device operation in the order of connect()
OpRank(op) ==
    CASE op = "open" -> 1
      [] op = "selectConfiguration" -> 2
      [] op = "claimInterface" -> 3
      [] op = "selectAlternateInterface" -> 4

\* C25: connect() issues open, selectConfiguration, claimInterface and
\* selectAlternateInterface in that order, each at most once and each only
\* when the device is not in the state it establishes; on a device already
\* in the required state it issues none; and when connect() returns the
\* device is in the required state.
C25_ConnectSteps ==
    /\ [](\A i, j \in 1 .. Len(beOps) : i < j => OpRank(beOps[i]) < OpRank(beOps[j]))
    /\ [][beOps' # beOps =>
            /\ Len(beOps') = Len(beOps) + 1
            /\ LET op == beOps'[Len(beOps')]
               IN  /\ op = "open" => ~devOpened
                   /\ op = "selectConfiguration" => devConfig # reqConfig
                   /\ op = "claimInterface" => ~devClaimed
                   /\ op = "selectAlternateInterface" => devAlt # reqAlt]_vars
    /\ [][DeviceReady => beOps' = beOps]_vars
    /\ [](bePc \in {"stream", "done"} => DeviceReady)

\* connect() finished on a device that needed all four operations
C25_Witness ==
    /\ bePc = "done"
    /\ beOps = << "open", "selectConfiguration", "claimInterface",
                  "selectAlternateInterface" >>

\* C27: once connect() of a backend created by getDevices(filters, m) or by
\* requestDevice(filters, m) has constructed its stream, the disconnect
\* listener is registered on m and on no other usbManager.
C27_BackendManager ==
    (beCall \in {"getDevices", "requestDevice"} /\ bePc = "done") =>
        adListeners = {beArg}

\* the first endpoint of epList with direction dir (0: none)
FirstEndpoint(dir) ==
    IF \E i \in 1 .. Len(epList) : epList[i] = dir
    THEN CHOOSE i \in 1 .. Len(epList) :
            epList[i] = dir /\ \A j \in 1 .. i - 1 : epList[j] # dir
    ELSE 0

\* C26: findUsbEndpoints returns the first "in" endpoint and the first "out"
\* endpoint of the list when the list has both, and throws when the list is
\* empty or lacks a direction.
C26_FirstPair ==
    /\ epRes = "returned" =>
          /\ epIn = FirstEndpoint("in")
          /\ epOut = FirstEndpoint("out")
    /\ (FirstEndpoint("in") = 0 \/ FirstEndpoint("out") = 0) =>
          epRes \in {"none", "running", "No endpoints given",
                     "No input endpoint found.", "No output endpoint found."}
    /\ epRes \in {"No endpoints given", "No input endpoint found.",
                  "No output endpoint found."} =>
          (FirstEndpoint("in") = 0 \/ FirstEndpoint("out") = 0)
    /\ epRes # "unreachable"

\* C28: when the call has completed, the sync session it opened is disposed;
\* no install process was spawned if the push failed; and if the push
\* succeeded the temporary file is no longer on the device, also when the
\* call failed; an install output other than "Success" that was read and
\* cleaned up after fails the call with that output.
C28_Cleanup ==
    pmPc = "done" =>
        /\ pmSync \in {"none", "disposed"}
        /\ pmPushed < pmStream => pmSpawned = 0
        /\ pmPushed = pmStream => ~pmFile
        /\ (pmRes \in InstallOutputs \ {"Success"}) => pmRes = pmOutput

====
